---- MODULE Spec2Model ----
(***************************************************************************)
(* Model of src/main.py: the z-score AnomalyDetector over a sliding window *)
(* (a deque with maxlen) and the per-frame runner built on matplotlib's    *)
(* FuncAnimation.                                                          *)
(*                                                                         *)
(* numpy computes in binary floating point.  The model keeps the rounding: *)
(* a number is a binary float with a significand of Precision bits,        *)
(* rounded to nearest, ties to even, after every operation, with NaN and   *)
(* the two infinities.  float64 is the same arithmetic with 53 bits.       *)
(***************************************************************************)
EXTENDS Integers, Sequences, FiniteSets, TLC

\* Bits of significand kept by every floating point operation.
Precision == 5

\* Most calls of add_data_point made on one detector.
MaxCalls == 4

\* Largest window_size tried.
MaxW == 3

\* Longest data_stream handed to the runner.
MaxStream == 3

\* Most resize events of the figure window during one run.
MaxResize == 1

----------------------------------------------------------------------------
(* Floating point numbers *)

\* A finite number is m * 2^e with m odd (or m = 0, e = 0), |m| < 2^Precision.
Fin(m, e) == [k |-> "fin", m |-> m, e |-> e]
NaN == [k |-> "nan", m |-> 0, e |-> 0]
Inf(s) == [k |-> "inf", m |-> s, e |-> 0]
PosInf == Inf(1)
NegInf == Inf(-1)
Zero == Fin(0, 0)

\* A value that is no int, float or np.number (a str).
Str == [k |-> "str", m |-> 0, e |-> 0]

\* A decimal.Decimal: no int, float or np.number either, but it orders with
\* floats, takes part in arithmetic and has the format code f.
Dec == [k |-> "dec", m |-> 0, e |-> 0]

\* A row of a two-dimensional stream (a list or an ndarray): no int, float
\* or np.number, and it has no format code f.
Row == [k |-> "row", m |-> 0, e |-> 0]

IAbs(n) == IF n < 0 THEN -n ELSE n
Sgn(n) == IF n < 0 THEN -1 ELSE IF n = 0 THEN 0 ELSE 1

RECURSIVE BitLen(_)
BitLen(n) == IF n = 0 THEN 0 ELSE 1 + BitLen(n \div 2)

RECURSIVE Norm(_, _)
Norm(m, e) ==
  IF m = 0 THEN Zero
  ELSE IF m % 2 = 0 THEN Norm(m \div 2, e + 1)
  ELSE Fin(m, e)

\* The float nearest to s * (q + t) * 2^e, where q >= 0 is an integer and
\* sticky tells that 0 < t < 1 (callers give q at least Precision + 2 bits
\* whenever sticky).  Ties go to the even significand.
RoundTo(s, q, sticky, e) ==
  LET L == BitLen(q) IN
  IF L <= Precision THEN Norm(s * q, e)
  ELSE LET sh == L - Precision
           lo == q \div (2 ^ sh)
           r == q % (2 ^ sh)
           half == 2 ^ (sh - 1)
           up == \/ r > half
                 \/ r = half /\ (sticky \/ lo % 2 = 1)
       IN Norm(s * (IF up THEN lo + 1 ELSE lo), e + sh)

FromInt(n) == RoundTo(Sgn(n), IAbs(n), FALSE, 0)

\* Position of the leading bit of a nonzero finite number.
Top(a) == a.e + BitLen(IAbs(a.m))

FNeg(a) == IF a.k = "nan" THEN NaN ELSE [a EXCEPT !.m = -a.m]

FAbs(a) == IF a.k = "nan" THEN NaN ELSE [a EXCEPT !.m = IAbs(a.m)]

FAdd(a, b) ==
  IF a.k = "nan" \/ b.k = "nan" THEN NaN
  ELSE IF a.k = "inf" /\ b.k = "inf" THEN (IF a.m = b.m THEN a ELSE NaN)
  ELSE IF a.k = "inf" THEN a
  ELSE IF b.k = "inf" THEN b
  ELSE IF a.m = 0 THEN b
  ELSE IF b.m = 0 THEN a
  ELSE IF Top(a) - Top(b) > Precision + 2 THEN a
  ELSE IF Top(b) - Top(a) > Precision + 2 THEN b
  ELSE LET lowe == IF a.e < b.e THEN a.e ELSE b.e
           sum == a.m * 2 ^ (a.e - lowe) + b.m * 2 ^ (b.e - lowe)
       IN RoundTo(Sgn(sum), IAbs(sum), FALSE, lowe)

FSub(a, b) == FAdd(a, FNeg(b))

FMul(a, b) ==
  IF a.k = "nan" \/ b.k = "nan" THEN NaN
  ELSE IF a.k = "inf" \/ b.k = "inf"
       THEN (IF a.m = 0 \/ b.m = 0 THEN NaN ELSE Inf(Sgn(a.m) * Sgn(b.m)))
  ELSE RoundTo(Sgn(a.m) * Sgn(b.m), IAbs(a.m) * IAbs(b.m), FALSE, a.e + b.e)

\* Extra bits a quotient or a root is computed with before rounding.
Guard == 2 * Precision + 2

FDiv(a, b) ==
  IF a.k = "nan" \/ b.k = "nan" THEN NaN
  ELSE IF a.k = "inf" THEN (IF b.k = "inf" THEN NaN
                            ELSE Inf(IF b.m < 0 THEN -a.m ELSE a.m))
  ELSE IF b.k = "inf" THEN Zero
  ELSE IF b.m = 0 THEN (IF a.m = 0 THEN NaN ELSE Inf(Sgn(a.m)))
  ELSE IF a.m = 0 THEN Zero
  ELSE LET num == IAbs(a.m) * 2 ^ Guard
           den == IAbs(b.m)
       IN RoundTo(Sgn(a.m) * Sgn(b.m), num \div den, num % den # 0,
                  a.e - b.e - Guard)

RECURSIVE ISqrt(_)
ISqrt(n) ==
  IF n < 2 THEN n
  ELSE LET r == 2 * ISqrt(n \div 4)
       IN IF (r + 1) * (r + 1) <= n THEN r + 1 ELSE r

FSqrt(a) ==
  IF a.k = "nan" THEN NaN
  ELSE IF a.m < 0 THEN NaN
  ELSE IF a.k = "inf" THEN a
  ELSE IF a.m = 0 THEN Zero
  ELSE LET j == Guard + (a.e % 2)
           big == a.m * 2 ^ j
           s == ISqrt(big)
       IN RoundTo(1, s, s * s # big, (a.e - j) \div 2)

\* a > b on floats: false as soon as one side is NaN.
FGt(a, b) ==
  IF a.k = "nan" \/ b.k = "nan" THEN FALSE
  ELSE IF a.k = "inf" THEN a.m = 1 /\ b # a
  ELSE IF b.k = "inf" THEN b.m = -1
  ELSE IF Sgn(a.m) # Sgn(b.m) THEN Sgn(a.m) > Sgn(b.m)
  ELSE IF a.m = 0 THEN FALSE
  ELSE IF Top(a) # Top(b) THEN (IF a.m > 0 THEN Top(a) > Top(b) ELSE Top(a) < Top(b))
  ELSE LET lowe == IF a.e < b.e THEN a.e ELSE b.e
       IN a.m * 2 ^ (a.e - lowe) > b.m * 2 ^ (b.e - lowe)

\* a == 0 on floats.
FIsZero(a) == a.k = "fin" /\ a.m = 0

----------------------------------------------------------------------------
(* numpy reductions over the window (fewer than 8 elements: summed left to *)
(* right in float64)                                                       *)

RECURSIVE SumFrom(_, _, _)
SumFrom(w, i, acc) ==
  IF i > Len(w) THEN acc ELSE SumFrom(w, i + 1, FAdd(acc, w[i]))

np_sum(w) == SumFrom(w, 1, Zero)

np_mean(w) == FDiv(np_sum(w), FromInt(Len(w)))

\* Mutant of np_std: the root is taken before the division by n.
np_std_rootfirst(w) ==
  LET arrmean == np_mean(w)
      x == [i \in 1..Len(w) |-> FSub(w[i], arrmean)]
      sq == [i \in 1..Len(w) |-> FMul(x[i], x[i])]
  IN FDiv(FSqrt(np_sum(sq)), FromInt(Len(w)))

\* Population standard deviation: sqrt(sum((x - mean)^2) / n), ddof = 0.
np_std(w) ==
  LET arrmean == np_mean(w)
      x == [i \in 1..Len(w) |-> FSub(w[i], arrmean)]
      sq == [i \in 1..Len(w) |-> FMul(x[i], x[i])]
  IN FSqrt(FDiv(np_sum(sq), FromInt(Len(w))))

----------------------------------------------------------------------------
(* AnomalyDetector *)

\* AnomalyDetector.__init__ with a numeric threshold and a positive integer
\* window_size: the attributes of the new instance.
NewDetector(th, ws) ==
  [threshold |-> th, window_size |-> ws, data_window |-> <<>>,
   anomalies_count |-> 0]

\* The window_size argument of __init__: an int n, a float (2.5) or a str.
IntArg(n) == [t |-> "int", n |-> n]
FloatArg == [t |-> "float", n |-> 2]
StrArg == [t |-> "str", n |-> 0]

\* No instance: the name the constructor call would have bound.
NoDetector ==
  [threshold |-> Str, window_size |-> 0, data_window |-> <<>>,
   anomalies_count |-> 0]

\* isinstance(threshold, (int, float))
ThresholdIsNumeric(threshold) == threshold.k \in {"fin", "nan", "inf"}

\* Mutant of WindowSizeIsPositiveInt: < 0 instead of <= 0.
WindowSizeIsPositiveInt_zero(window_size) ==
  window_size.t = "int" /\ ~(window_size.n < 0)

\* not (not isinstance(window_size, int) or window_size <= 0)
WindowSizeIsPositiveInt(window_size) ==
  window_size.t = "int" /\ ~(window_size.n <= 0)

\* AnomalyDetector(threshold, window_size): the new instance, or the
\* ValueError __init__ raised.
init(threshold, window_size) ==
  IF ~ThresholdIsNumeric(threshold)
  THEN [out |-> "ValueError", det |-> NoDetector]
  ELSE IF ~WindowSizeIsPositiveInt(window_size)
  THEN [out |-> "ValueError", det |-> NoDetector]
  ELSE [out |-> "ok", det |-> NewDetector(threshold, window_size.n)]

\* Mutant of IsNumeric: the check lets every value through.
IsNumeric_any(value) == value.k \in {"fin", "nan", "inf", "str"}

\* isinstance(value, (int, float, np.number)): nan and the infinities are
\* floats.
IsNumeric(value) == value.k \in {"fin", "nan", "inf"}

\* Mutant of DequeAppend: a deque without maxlen.
DequeAppend_unbounded(w, value, maxlen) == Append(w, value)

\* Mutant of DequeAppend: a full deque drops its rightmost item.
DequeAppend_droplast(w, value, maxlen) ==
  IF Len(w) = maxlen THEN Append(SubSeq(w, 1, Len(w) - 1), value)
  ELSE Append(w, value)

\* Mutant of DequeAppend: a full deque is emptied before the append.
DequeAppend_restart(w, value, maxlen) ==
  IF Len(w) = maxlen THEN <<value>> ELSE Append(w, value)

\* deque(maxlen=n).append(value): a full deque drops its leftmost item.
DequeAppend(w, value, maxlen) ==
  IF Len(w) = maxlen THEN Append(Tail(w), value) ELSE Append(w, value)

\* Mutant of NotEnoughData: the warm-up ends one point early.
NotEnoughData_short(w, ws) == Len(w) < ws - 1

\* len(self.data_window) < self.window_size
NotEnoughData(w, ws) == Len(w) < ws

\* std_dev == 0
StdIsZero(std_dev) == FIsZero(std_dev)

\* z_score = (value - mean) / std_dev
ZScore(value, mean, std_dev) == FDiv(FSub(value, mean), std_dev)

\* Mutant of ExceedsThreshold: abs() is forgotten.
ExceedsThreshold_signed(z_score, th) == FGt(z_score, th)

\* Mutant of ExceedsThreshold: >= instead of >.
ExceedsThreshold_ge(z_score, th) ==
  FGt(FAbs(z_score), th) \/ FAbs(z_score) = th

\* abs(z_score) > self.threshold
ExceedsThreshold(z_score, th) == FGt(FAbs(z_score), th)

\* Mutant of CountAnomaly: the counter is bumped by two.
CountAnomaly_twice(d) == [d EXCEPT !.anomalies_count = @ + 2]

\* self.anomalies_count += 1
CountAnomaly(d) == [d EXCEPT !.anomalies_count = @ + 1]

\* AnomalyDetector.add_data_point(value) on detector d: the detector after
\* the call and what the call gave ("True", "False", or "ValueError" raised).
add_data_point(d, value) ==
  IF ~IsNumeric(value) THEN [det |-> d, out |-> "ValueError"]
  ELSE LET w == DequeAppend(d.data_window, value, d.window_size)
           d1 == [d EXCEPT !.data_window = w]
       IN IF NotEnoughData(w, d.window_size) THEN [det |-> d1, out |-> "False"]
          ELSE LET mean == np_mean(w)
                   std_dev == np_std(w)
               IN IF StdIsZero(std_dev) THEN [det |-> d1, out |-> "False"]
                  ELSE IF ExceedsThreshold(ZScore(value, mean, std_dev), d.threshold)
                       THEN [det |-> CountAnomaly(d1), out |-> "True"]
                       ELSE [det |-> d1, out |-> "False"]

----------------------------------------------------------------------------
(* State *)

VARIABLES
  ctor,            \* the constructor call: its arguments and what it gave
                   \* ("none": not called yet, "ok", "ValueError")
  detector,        \* the AnomalyDetector instance
  second,          \* a second AnomalyDetector instance, when there is one:
                   \* its constructor call, its attributes, the values its
                   \* add_data_point was called with and what the calls gave
  fed,             \* the values add_data_point was called with, in order
  results,         \* what each of those calls gave
  data_stream,     \* plot_data_stream_realtime: the stream being shown
  data,            \* the values update has plotted so far
  anomaly_indices, \* the frames update has flagged
  printed,         \* the lines update has printed: frame and verdict
  count_text,      \* the count shown by anomaly_count_text (-1: no text yet)
  updated,         \* the frames update was called with, in order
  frame_seq,       \* the next frame the animation's iterator gives
  resizes,         \* resize events so far
  closed,          \* the figure window was closed
  ani              \* the animation: "idle", "created", "running",
                   \* "stopped" (frames exhausted), "closed" (stopped by
                   \* the close of the window) or "crashed" (an exception
                   \* ended the run)

dvars == <<detector, fed, results>>
rvars == <<data_stream, data, anomaly_indices, printed, count_text, updated,
           frame_seq, resizes, closed, ani>>
vars == <<ctor, detector, second, fed, results, data_stream, data,
          anomaly_indices, printed, count_text, updated, frame_seq, resizes,
          closed, ani>>

\* Data points: 1, 3, 22, nan, inf, -inf and a str.
Values == {FromInt(1), FromInt(3), FromInt(22), NaN, PosInf, NegInf, Str}

\* Thresholds: -1, 0.5, 1, 2.
Thresholds == {FromInt(-1), Fin(1, -1), FromInt(1), FromInt(2)}

\* The constructor call that gave detector d.
Built(d) ==
  [threshold |-> d.threshold, window_size |-> IntArg(d.window_size),
   out |-> "ok"]

\* The constructor was not called.
NotCalled == [threshold |-> Str, window_size |-> StrArg, out |-> "none"]

\* No second instance.
NoSecond ==
  [ctor |-> NotCalled, detector |-> NoDetector, fed |-> <<>>,
   results |-> <<>>]

\* No runner: the detector is driven directly.
NoRunner ==
  /\ data_stream = <<>>
  /\ data = <<>>
  /\ anomaly_indices = <<>>
  /\ printed = <<>>
  /\ count_text = -1
  /\ updated = <<>>
  /\ frame_seq = 0
  /\ resizes = 0
  /\ closed = FALSE
  /\ ani = "idle"

Init ==
  /\ \E th \in Thresholds, ws \in 1..MaxW : detector = NewDetector(th, ws)
  /\ ctor = Built(detector)
  /\ second = NoSecond
  /\ fed = <<>>
  /\ results = <<>>
  /\ NoRunner

\* One call detector.add_data_point(value).
Call(value) ==
  /\ LET r == add_data_point(detector, value)
     IN /\ detector' = r.det
        /\ results' = Append(results, r.out)
  /\ fed' = Append(fed, value)
  /\ UNCHANGED <<ctor, second, rvars>>

AddDataPoint(value) ==
  /\ Len(fed) < MaxCalls
  /\ Call(value)

Next == \E value \in Values : AddDataPoint(value)

Spec == Init /\ [][Next]_vars

----------------------------------------------------------------------------
(* The end-to-end scenario: window_size 4, threshold 2.0, points 1 and 100 *)

Scenario ==
  <<FromInt(1), FromInt(1), FromInt(1), FromInt(1), FromInt(1), FromInt(1),
    FromInt(1), FromInt(1), FromInt(100)>>

ScenarioValues == {Scenario[i] : i \in 1..Len(Scenario)}

ScenarioInit ==
  /\ detector = NewDetector(FromInt(2), 4)
  /\ ctor = Built(detector)
  /\ second = NoSecond
  /\ fed = <<>>
  /\ results = <<>>
  /\ NoRunner

ScenarioCall(value) ==
  /\ Len(fed) < Len(Scenario)
  /\ Call(value)

ScenarioNext == \E value \in ScenarioValues : ScenarioCall(value)

ScenarioSpec == ScenarioInit /\ [][ScenarioNext]_vars

----------------------------------------------------------------------------
(* Construction: AnomalyDetector(threshold, window_size), then calls *)

\* threshold arguments: the thresholds and a str.
ThresholdArgs == Thresholds \cup {Str}

\* window_size arguments: the ints -1 .. MaxW, 2.5 and a str.
WindowSizeArgs == {IntArg(n) : n \in -1..MaxW} \cup {FloatArg, StrArg}

\* Data points fed to the new instance: 1 and 3.
CtorValues == {FromInt(1), FromInt(3)}

CtorInit ==
  /\ ctor = NotCalled
  /\ detector = NoDetector
  /\ second = NoSecond
  /\ fed = <<>>
  /\ results = <<>>
  /\ NoRunner

\* detector = AnomalyDetector(threshold, window_size)
Construct(threshold, window_size) ==
  /\ ctor.out = "none"
  /\ LET r == init(threshold, window_size)
     IN /\ ctor' = [threshold |-> threshold, window_size |-> window_size,
                    out |-> r.out]
        /\ detector' = r.det
  /\ UNCHANGED <<second, fed, results, rvars>>

\* A call on the instance built, until one point more than the window holds
\* has gone in.
CtorCall(value) ==
  /\ ctor.out = "ok"
  /\ Len(fed) <= detector.window_size
  /\ Call(value)

CtorNext ==
  \/ \E threshold \in ThresholdArgs, window_size \in WindowSizeArgs :
       Construct(threshold, window_size)
  \/ \E value \in CtorValues : CtorCall(value)

CtorSpec == CtorInit /\ [][CtorNext]_vars

----------------------------------------------------------------------------
(* Detectors whose threshold is at least sqrt(window_size - 1) *)

\* threshold >= 0 and threshold^2 >= window_size - 1
AtLeastRootW(th, ws) ==
  /\ th.k = "fin"
  /\ ~FGt(Zero, th)
  /\ ~FGt(FromInt(ws - 1), FMul(th, th))

\* Data points: 1, a power of two of full significand width, the next
\* float above it, and nan.
BoundValues ==
  {FromInt(1), FromInt(2 ^ (Precision - 1)), FromInt(2 ^ (Precision - 1) + 1),
   NaN}

BoundInit ==
  /\ \E th \in Thresholds, ws \in 1..MaxW :
       /\ AtLeastRootW(th, ws)
       /\ detector = NewDetector(th, ws)
  /\ ctor = Built(detector)
  /\ second = NoSecond
  /\ fed = <<>>
  /\ results = <<>>
  /\ NoRunner

BoundCall(value) ==
  /\ Len(fed) < MaxCalls
  /\ Call(value)

BoundNext == \E value \in BoundValues : BoundCall(value)

BoundSpec == BoundInit /\ [][BoundNext]_vars

----------------------------------------------------------------------------
(* Two instances, their calls interleaved *)

PairThresholds == {FromInt(-1), FromInt(1)}

\* Data points fed to either instance: 1, 22 and a str.
PairValues == {FromInt(1), FromInt(22), Str}

\* Mutant of Untouched: data_window is one deque that both instances hold.
Untouched_aliased(other, d) == [other EXCEPT !.data_window = d.data_window]

\* The attributes of the other instance after a call that left the called
\* instance as d: __init__ gave each instance its own deque and counter, and
\* add_data_point writes through self only.
Untouched(other, d) == other

PairInit ==
  /\ \E th \in PairThresholds, ws \in 1..MaxW :
       detector = NewDetector(th, ws)
  /\ ctor = Built(detector)
  /\ \E ws \in 1..MaxW :
       second = [ctor |-> Built(NewDetector(FromInt(-1), ws)),
                 detector |-> NewDetector(FromInt(-1), ws),
                 fed |-> <<>>, results |-> <<>>]
  /\ fed = <<>>
  /\ results = <<>>
  /\ NoRunner

\* detector.add_data_point(value) on the first instance
CallFirst(value) ==
  /\ Len(fed) + Len(second.fed) < MaxCalls
  /\ LET r == add_data_point(detector, value)
     IN /\ detector' = r.det
        /\ results' = Append(results, r.out)
        /\ fed' = Append(fed, value)
        /\ second' = [second EXCEPT !.detector = Untouched(@, r.det)]
  /\ UNCHANGED <<ctor, rvars>>

\* add_data_point(value) on the second instance
CallSecond(value) ==
  /\ Len(fed) + Len(second.fed) < MaxCalls
  /\ LET r == add_data_point(second.detector, value)
     IN /\ second' = [second EXCEPT !.detector = r.det,
                                    !.results = Append(@, r.out),
                                    !.fed = Append(@, value)]
        /\ detector' = Untouched(detector, r.det)
  /\ UNCHANGED <<ctor, fed, results, rvars>>

PairNext ==
  \/ \E value \in PairValues : CallFirst(value)
  \/ \E value \in PairValues : CallSecond(value)

PairSpec == PairInit /\ [][PairNext]_vars

----------------------------------------------------------------------------
(* plot_data_stream_realtime: update(frame) driven by FuncAnimation *)

\* f"{value:.2f}": a str and a row have no format code 'f', the f-string
\* raises.
CanFormat(value) == value.k \notin {"str", "row"}

\* update(frame) from the current state: what it leaves behind, whether it
\* raised (raised) and whether it stopped the event source (stop).  Frames
\* count from 0, sequences from 1.
update(frame) ==
  IF frame >= Len(data_stream)
  THEN [raised |-> FALSE, stop |-> TRUE, det |-> detector, fed |-> fed,
        results |-> results, data |-> data,
        anomaly_indices |-> anomaly_indices, printed |-> printed,
        count_text |-> count_text]
  ELSE LET value == data_stream[frame + 1]
           r == add_data_point(detector, value)
           \* except ValueError: is_anomaly = False
           is_anomaly == r.out = "True"
           shown == CanFormat(value)
       IN [raised |-> ~shown, stop |-> FALSE, det |-> r.det,
           fed |-> Append(fed, value),
           results |-> Append(results, r.out),
           data |-> Append(data, value),
           anomaly_indices |->
             IF is_anomaly THEN Append(anomaly_indices, frame)
             ELSE anomaly_indices,
           printed |->
             IF shown
             THEN Append(printed, [frame |-> frame, value |-> value,
                                   is_anomaly |-> is_anomaly])
             ELSE printed,
           count_text |->
             IF shown THEN r.det.anomalies_count ELSE count_text]

\* The state after a call update(frame) that gave r.
Updated(frame, r) ==
  /\ detector' = r.det
  /\ fed' = r.fed
  /\ results' = r.results
  /\ data' = r.data
  /\ anomaly_indices' = r.anomaly_indices
  /\ printed' = r.printed
  /\ count_text' = r.count_text
  /\ updated' = Append(updated, frame)

\* The first draw of the figure: Animation._start calls _init_draw, which,
\* no init_func being given, calls update with the first frame of a new
\* frame sequence, and then starts the timer.  An exception leaves _start
\* before the timer is started.
Start ==
  /\ ani = "created"
  /\ LET r == update(0)
     IN /\ Updated(0, r)
        /\ ani' = IF r.raised THEN "crashed" ELSE "running"
  /\ UNCHANGED <<ctor, second, data_stream, frame_seq, resizes, closed>>

\* A timer tick with frames left: the iterator gives the next frame and
\* update is called with it.  When update raises, the exception goes to the
\* timer callback of the GUI backend: some backends drop the timer, others
\* keep firing.
Step ==
  /\ ani = "running"
  /\ frame_seq < Len(data_stream)
  /\ LET r == update(frame_seq)
     IN /\ Updated(frame_seq, r)
        /\ \E keeps \in BOOLEAN :
             ani' = IF r.raised /\ ~keeps THEN "crashed"
                    ELSE IF r.stop THEN "stopped"
                    ELSE "running"
  /\ frame_seq' = frame_seq + 1
  /\ UNCHANGED <<ctor, second, data_stream, resizes, closed>>

\* A timer tick with the frames exhausted: repeat=False, the animation
\* stops its timer.
Finish ==
  /\ ani = "running"
  /\ frame_seq = Len(data_stream)
  /\ ani' = "stopped"
  /\ UNCHANGED <<ctor, second, detector, fed, results, data_stream, data,
                 anomaly_indices, printed, count_text, updated, frame_seq,
                 resizes, closed>>

\* The figure window is resized (blit=True): _on_resize stops the timer and
\* calls _init_draw, that is update with the first frame once more; the
\* timer is started again after the redraw, unless update raised.
Resize ==
  /\ ani \in {"created", "running"}
  /\ resizes < MaxResize
  /\ LET r == update(0)
     IN /\ Updated(0, r)
        /\ ani' = IF r.raised /\ ani = "running" THEN "crashed" ELSE ani
  /\ resizes' = resizes + 1
  /\ UNCHANGED <<ctor, second, data_stream, frame_seq, closed>>

\* Mutant of AfterClose: the close of the window is ignored.
AfterClose_ignored(a) == a

\* The animation after the close_event of the figure: Animation connected
\* it to _stop, which removes the timer callback.
AfterClose(a) == "closed"

\* The figure window is closed while plt.show() runs: no timer tick and no
\* resize comes after it, and plt.show() returns.
Close ==
  /\ ani \in {"running", "stopped"}
  /\ ~closed
  /\ closed' = TRUE
  /\ ani' = AfterClose(ani)
  /\ UNCHANGED <<ctor, second, detector, fed, results, data_stream, data,
                 anomaly_indices, printed, count_text, updated, frame_seq,
                 resizes>>

\* Stream items: 1, 22, nan, a str, a Decimal and a row.
StreamValues == {FromInt(1), FromInt(22), NaN, Str, Dec, Row}

\* The streams, the empty one among them.
Streams == UNION {[1..n -> StreamValues] : n \in 0..MaxStream}

\* ax.set_ylim(np.min(data_stream) - 1, np.max(data_stream) + 1) raises: on
\* an empty stream (no minimum), on a stream with a str (no minimum, and no
\* str - 1), on a stream with nan or inf (axis limits cannot be NaN or Inf)
\* and on a ragged stream, rows among scalars.
SetupRaises(stream) ==
  \/ stream = <<>>
  \/ \E i \in 1..Len(stream) : stream[i].k \in {"str", "nan", "inf"}
  \/ \E i, j \in 1..Len(stream) : stream[i].k = "row" /\ stream[j].k # "row"

RunInit ==
  /\ \E th \in Thresholds, ws \in 1..MaxW : detector = NewDetector(th, ws)
  /\ ctor = Built(detector)
  /\ second = NoSecond
  /\ fed = <<>>
  /\ results = <<>>
  /\ data_stream \in Streams
  /\ data = <<>>
  /\ anomaly_indices = <<>>
  /\ printed = <<>>
  /\ count_text = -1
  /\ updated = <<>>
  /\ frame_seq = 0
  /\ resizes = 0
  /\ closed = FALSE
  /\ ani = IF SetupRaises(data_stream) THEN "crashed" ELSE "created"

RunNext == Start \/ Step \/ Finish \/ Resize \/ Close

RunSpec == RunInit /\ [][RunNext]_vars

----------------------------------------------------------------------------
(* Claims about add_data_point, checked under Spec *)

\* The latest call: its number, its argument and what it gave.
NCalls == Len(fed)
LastValue == fed[NCalls]
LastResult == results[NCalls]

\* The value is the str, the one data point that is no number.
IsStr(value) == value = Str

\* The value is no int, float or np.number: a str, a Decimal or a row.
NoNumber(value) == value.k \in {"str", "dec", "row"}

NumTrue(rs) == Cardinality({i \in 1..Len(rs) : rs[i] = "True"})

AllSame(w) == \A i \in 1..Len(w) : w[i] = w[1]

\* C1: a call with a valid value returns True exactly when, with the value
\* appended, the window holds window_size values, their population standard
\* deviation is not zero and abs((value - mean) / std_dev) > threshold, mean
\* and std_dev being those of the window that already holds the value; in
\* every other case it returns False.
C1_ClassifyRule ==
  (NCalls > 0 /\ ~IsStr(LastValue)) =>
    LET w == detector.data_window
        z == FDiv(FSub(LastValue, np_mean(w)), np_std(w))
    IN /\ w[Len(w)] = LastValue
       /\ LastResult \in {"True", "False"}
       /\ LastResult = "True" <=>
            /\ Len(w) = detector.window_size
            /\ ~FIsZero(np_std(w))
            /\ FGt(FAbs(z), detector.threshold)

\* C1 witness: a call on a full window returned True for a point below the
\* mean, and the window has already dropped an older point.
C1_Witness ==
  /\ NCalls > detector.window_size
  /\ LastResult = "True"
  /\ FGt(np_mean(detector.data_window), LastValue)

\* C2: the first window_size - 1 values fed to a fresh detector are all
\* classified False, whatever they are, and anomalies_count is still 0 after
\* them.
C2_WarmUp ==
  /\ \A i \in 1..NCalls :
       (i <= detector.window_size - 1 /\ ~IsStr(fed[i])) => results[i] = "False"
  /\ NCalls <= detector.window_size - 1 => detector.anomalies_count = 0

\* C2 witness: two different finite points went into a detector of window
\* size 3 whose threshold (-1) any z-score exceeds.
C2_Witness ==
  /\ detector.window_size = 3
  /\ detector.threshold = FromInt(-1)
  /\ fed = <<FromInt(1), FromInt(22)>>

\* C4: anomalies_count equals the number of calls so far that returned True;
\* each call changes it by 0 or by exactly +1, +1 exactly when the call
\* returns True, so it never decreases and is never negative.
C4_CountSteps ==
  [][ LET before == detector.anomalies_count
          after == detector'.anomalies_count
      IN /\ after = NumTrue(results')
         /\ after >= before
         /\ before >= 0
         /\ after - before = (IF results'[Len(results')] = "True" THEN 1 ELSE 0) ]_vars

\* C4 witness: a call returned True and a later call returned False.
C4_Witness ==
  /\ NCalls = 4
  /\ results[3] = "True"
  /\ results[4] = "False"
  /\ detector.anomalies_count >= 1

\* C5: whenever the window_size most recent accepted values, the one being
\* classified among them, are all identical, the call returns False and
\* anomalies_count is left as it was.  Stated for thresholds that are not
\* negative, the ones a z-score cutoff is meant to take.
C5_ConstantWindow ==
  (/\ NCalls > 0
   /\ ~IsStr(LastValue)
   /\ ~FGt(Zero, detector.threshold)
   /\ Len(detector.data_window) = detector.window_size
   /\ AllSame(detector.data_window))
  => /\ LastResult = "False"
     /\ detector.anomalies_count = NumTrue(SubSeq(results, 1, NCalls - 1))

\* C6: a value whose z-score over the full window has an absolute value equal
\* to threshold is classified False, and anomalies_count is not incremented.
C6_StrictBoundary ==
  (/\ NCalls > 0
   /\ ~IsStr(LastValue)
   /\ Len(detector.data_window) = detector.window_size
   /\ ~FIsZero(np_std(detector.data_window))
   /\ FAbs(FDiv(FSub(LastValue, np_mean(detector.data_window)),
                np_std(detector.data_window))) = detector.threshold)
  => /\ LastResult = "False"
     /\ detector.anomalies_count = NumTrue(SubSeq(results, 1, NCalls - 1))

\* C6 witness: the window 1, 3 under threshold 1: the z-score of 3 is 1.
C6_Witness ==
  /\ detector.window_size = 2
  /\ detector.threshold = FromInt(1)
  /\ fed = <<FromInt(1), FromInt(3)>>
  /\ FDiv(FSub(LastValue, np_mean(detector.data_window)),
          np_std(detector.data_window)) = detector.threshold

\* C9: the window never holds more than window_size values, and no call
\* changes window_size or threshold.
C9_WindowBound ==
  [][ /\ Len(detector'.data_window) <= detector'.window_size
      /\ detector'.window_size = detector.window_size
      /\ detector'.threshold = detector.threshold ]_vars

\* C9 witness: more values were accepted than the window holds.
C9_Witness ==
  /\ NCalls > detector.window_size
  /\ \A i \in 1..NCalls : ~IsStr(fed[i])
  /\ Len(detector.data_window) = detector.window_size

IsFinite(value) == value.k = "fin"

\* C10: every value that is not a finite number (a non-number, nan, inf,
\* -inf) is rejected with the error and never enters the window.
C10_RejectsNonFinite ==
  /\ \A i \in 1..NCalls : ~IsFinite(fed[i]) => results[i] = "ValueError"
  /\ \A j \in 1..Len(detector.data_window) : IsFinite(detector.data_window[j])

\* What add_data_point does instead: the error is raised exactly for the
\* values that are no int, float or np.number, and those never enter the
\* window; nan, inf and -inf are floats: they are accepted, classified
\* False, and appended to the window.
AcceptsNonFinite ==
  /\ \A i \in 1..NCalls : (results[i] = "ValueError") <=> NoNumber(fed[i])
  /\ \A j \in 1..Len(detector.data_window) : ~NoNumber(detector.data_window[j])
  /\ \A i \in 1..NCalls :
       (~NoNumber(fed[i]) /\ ~IsFinite(fed[i])) => results[i] = "False"
  /\ (NCalls > 0 /\ ~NoNumber(LastValue)) =>
       detector.data_window[Len(detector.data_window)] = LastValue

\* The values the calls so far accepted, in arrival order.
Accepted == SelectSeq(fed, LAMBDA v : ~IsStr(v))

\* The last n items of s.
LastN(s, n) == SubSeq(s, Len(s) - n + 1, Len(s))

\* C12: the window holds exactly the last min(n, window_size) of the n
\* values accepted so far, in arrival order: a push on a full window drops
\* the oldest value and nothing else.
C12_Fifo ==
  detector.data_window =
    LastN(Accepted, IF Len(Accepted) < detector.window_size
                    THEN Len(Accepted) ELSE detector.window_size)

\* C12 witness: window size 2, a rejected value among the calls, and three
\* accepted values 1, 22, 3 of which the window keeps 22, 3.
C12_Witness ==
  /\ detector.window_size = 2
  /\ Len(fed) > Len(Accepted)
  /\ Accepted = <<FromInt(1), FromInt(22), FromInt(3)>>
  /\ detector.data_window = <<FromInt(22), FromInt(3)>>

\* C13: once the window holds window_size values it holds window_size
\* values after every later call, accepted or rejected.
C13_StaysFull ==
  [][ Len(detector.data_window) = detector.window_size
      => Len(detector'.data_window) = detector'.window_size ]_vars

\* C13 witness: the window (of more than one value) was full, then came an
\* accepted call and then a rejected one, and it is full.
C13_Witness ==
  /\ detector.window_size > 1
  /\ NCalls = detector.window_size + 2
  /\ \A i \in 1..NCalls - 1 : ~IsStr(fed[i])
  /\ IsStr(LastValue)
  /\ Len(detector.data_window) = detector.window_size

\* C18: a call that raises ValueError leaves the detector as it was (window
\* contents and length, anomalies_count), so the window is not full before
\* window_size values have been accepted.
C18_RejectedFrame ==
  [][ (Len(fed') = Len(fed) + 1 /\ IsStr(fed'[Len(fed')]))
      => /\ results'[Len(results')] = "ValueError"
         /\ detector' = detector
         /\ (Len(detector'.data_window) = detector'.window_size
             => Len(SelectSeq(fed', LAMBDA v : ~IsStr(v)))
                  >= detector'.window_size) ]_vars

\* C18 witness: window size 2, one value accepted, two rejected: the window
\* is still one short.
C18_Witness ==
  /\ detector.window_size = 2
  /\ NCalls = 3
  /\ Len(Accepted) = 1
  /\ IsStr(LastValue)
  /\ Len(detector.data_window) = 1

\* C19: a detector with threshold >= 0 and threshold^2 >= window_size - 1
\* (window_size 1 among them) returns False on every call and its
\* anomalies_count stays 0: the squared z-score of a value scored inside its
\* own window is window_size - 1 at most.
C19_NeverFlags ==
  (/\ ~FGt(Zero, detector.threshold)
   /\ ~FGt(FromInt(detector.window_size - 1),
           FMul(detector.threshold, detector.threshold)))
  => /\ \A i \in 1..NCalls : results[i] # "True"
     /\ detector.anomalies_count = 0

\* What holds of these detectors: window_size 1 never flags.
WindowOfOneNeverFlags ==
  detector.window_size = 1
  => /\ \A i \in 1..NCalls : results[i] # "True"
     /\ detector.anomalies_count = 0

----------------------------------------------------------------------------
(* Claims about the scenario, checked under ScenarioSpec *)

AllFalse(rs) == \A i \in 1..Len(rs) : rs[i] = "False"

\* C3 as claimed: the scenario's first eight points are classified False and
\* the final 100 True, and anomalies_count is 1 after the run.
C3_ScenarioFlags100 ==
  fed = Scenario =>
    /\ AllFalse(SubSeq(results, 1, Len(Scenario) - 1))
    /\ results[Len(Scenario)] = "True"
    /\ detector.anomalies_count = 1

\* C3 as the code has it: all nine points of the scenario are classified
\* False, the final 100 too (its z-score within its own window of 1, 1, 1,
\* 100 is sqrt(3) < 2), and anomalies_count is 0 after the run.
C3_ScenarioAllFalse ==
  fed = Scenario =>
    /\ AllFalse(results)
    /\ detector.anomalies_count = 0

\* C3 witness: the scenario has been fed to the end.
C3_Witness ==
  /\ fed = Scenario
  /\ detector.data_window = <<FromInt(1), FromInt(1), FromInt(1), FromInt(100)>>

----------------------------------------------------------------------------
(* Claims about the runner, checked under RunSpec *)

\* C7: a non-numeric item does not make the per-item step raise: the error
\* of add_data_point is caught, the item is reported with is_anomaly false,
\* and every later item is still classified and reported in order.  So no
\* update is left by an exception, every frame update was called with has
\* its printed line, and a finished run has printed every frame.  Stated
\* for the streams the figure could be set up for.
C7_FaultTolerance ==
  ~SetupRaises(data_stream) =>
    /\ ani # "crashed"
    /\ Len(printed) = Len(updated)
    /\ \A i \in 1..Len(printed) :
         /\ printed[i].frame = updated[i]
         /\ NoNumber(printed[i].value) => ~printed[i].is_anomaly
    /\ ani = "stopped" =>
         \A f \in 0..(Len(data_stream) - 1) :
           \E i \in 1..Len(printed) : printed[i].frame = f

\* C8: every index is fed to the detector and reported exactly once, in
\* increasing order from index 0: the i-th call of update is for frame i - 1,
\* and a finished run has made exactly one call per item.  Stated for the
\* runs the claim is least demanding on: every item is a number and the
\* figure window is never resized.
C8_EachIndexOnce ==
  (resizes = 0 /\ \A k \in 1..Len(data_stream) : ~NoNumber(data_stream[k])) =>
    /\ \A i \in 1..Len(updated) : updated[i] = i - 1
    /\ \A i, j \in 1..Len(printed) : i < j => printed[i].frame < printed[j].frame
    /\ ani = "stopped" => Len(updated) = Len(data_stream)

\* The frames up to frame i that some printed line reports as an anomaly.
FlaggedUpTo(i) ==
  {f \in 0..i : \E j \in 1..Len(printed) :
                  printed[j].frame = f /\ printed[j].is_anomaly}

\* C14: the count shown with item i is detector.anomalies_count as it is
\* after item i was classified, and that is the number of items with index
\* <= i reported as anomalies; anomaly_indices has anomalies_count entries;
\* an item add_data_point rejected adds nothing to the count.
C14_RunningCount ==
  /\ Len(anomaly_indices) = detector.anomalies_count
  /\ detector.anomalies_count = NumTrue(results)
  /\ \A i \in 1..Len(fed) : NoNumber(fed[i]) => results[i] = "ValueError"
  /\ printed # <<>> =>
       /\ count_text = detector.anomalies_count
       /\ count_text = Cardinality(FlaggedUpTo(printed[Len(printed)].frame))

\* What holds of the count: the three parts that do not number the items,
\* in every run, and the whole of C14 while the window was never resized.
CountMatchesFlags ==
  /\ Len(anomaly_indices) = detector.anomalies_count
  /\ detector.anomalies_count = NumTrue(results)
  /\ \A i \in 1..Len(fed) : NoNumber(fed[i]) => results[i] = "ValueError"
  /\ printed # <<>> => count_text = detector.anomalies_count
  /\ (resizes = 0 /\ printed # <<>>) =>
       count_text = Cardinality(FlaggedUpTo(printed[Len(printed)].frame))

C16_EndsAfterLast ==
  (~closed /\ ani \in {"stopped", "crashed"}) =>
    \A f \in 0..(Len(data_stream) - 1) :
      /\ \E i \in 1..Len(updated) : updated[i] = f
      /\ \E i \in 1..Len(printed) : printed[i].frame = f

\* What holds of the end of a run: once the animation has stopped, crashed
\* or was closed, nothing is classified or reported any more.
NothingAfterEnd ==
  [][ (ani \in {"stopped", "crashed", "closed"}) =>
        (UNCHANGED <<detector, fed, results, data, anomaly_indices, printed,
                     count_text, updated, frame_seq>>) ]_vars

----------------------------------------------------------------------------
(* Claims about construction, checked under CtorSpec *)

IMin(a, b) == IF a < b THEN a ELSE b

\* C11: construction fails with the error when threshold is no number or
\* window_size is no positive integer (zero, negative, a float, a str), and
\* then there is no detector; a construction that succeeds gives threshold
\* and window_size as passed, an empty window and anomalies_count 0, and the
\* window holds window_size values at most.
C11_Construction ==
  /\ (ctor.out # "none"
      /\ (\/ ctor.threshold = Str
          \/ ctor.window_size.t # "int"
          \/ ctor.window_size.n < 1)) => ctor.out = "ValueError"
  /\ ctor.out = "ValueError" =>
       /\ detector = NoDetector
       /\ fed = <<>>
  /\ ctor.out = "ok" =>
       /\ detector.threshold = ctor.threshold
       /\ ctor.window_size.t = "int"
       /\ detector.window_size = ctor.window_size.n
       /\ detector.window_size >= 1
       /\ fed = <<>> => (detector.data_window = <<>>
                         /\ detector.anomalies_count = 0)
       /\ Len(detector.data_window) = IMin(Len(fed), detector.window_size)

\* C11 witness: a numeric threshold with window_size 0 was refused.
C11_Witness ==
  /\ ctor.out = "ValueError"
  /\ ctor.threshold = FromInt(2)
  /\ ctor.window_size = IntArg(0)

----------------------------------------------------------------------------
(* Claims about two instances, checked under PairSpec *)

RECURSIVE RunAlone(_, _)
\* Instance d fed the values of s one after the other, nothing else
\* running: the instance at the end and what the calls gave.
RunAlone(d, s) ==
  IF s = <<>> THEN [det |-> d, results |-> <<>>]
  ELSE LET r == add_data_point(d, Head(s))
           rest == RunAlone(r.det, Tail(s))
       IN [det |-> rest.det, results |-> <<r.out>> \o rest.results]

\* The instance as its constructor call c left it.
Fresh(c) == NewDetector(c.threshold, c.window_size.n)

\* C17: however the calls on two instances are interleaved, each instance
\* has the window, threshold, window_size, anomalies_count and results it
\* would have had fed its own values alone: a call on one instance changes
\* nothing of the other.
C17_Independent ==
  /\ detector = RunAlone(Fresh(ctor), fed).det
  /\ results = RunAlone(Fresh(ctor), fed).results
  /\ second.detector = RunAlone(Fresh(second.ctor), second.fed).det
  /\ second.results = RunAlone(Fresh(second.ctor), second.fed).results

\* C17 witness: calls on the two instances alternated, both fed 1, 22; the
\* first (window 2, threshold -1) flagged 22 and the second (window 3) did
\* not.
C17_Witness ==
  /\ Fresh(ctor) = NewDetector(FromInt(-1), 2)
  /\ Fresh(second.ctor) = NewDetector(FromInt(-1), 3)
  /\ fed = <<FromInt(1), FromInt(22)>>
  /\ second.fed = <<FromInt(1), FromInt(22)>>
  /\ results = <<"False", "True">>
  /\ second.results = <<"False", "False">>
  /\ detector.anomalies_count = 1
  /\ second.detector.anomalies_count = 0

====
